---------------------------- MODULE Spec2Model ----------------------------
(***************************************************************************)
(* Model of the BTC predictor dashboard's read endpoint                    *)
(* (src/app/api/predictions/route.ts): the heartbeat status resolver       *)
(* getSystemStatus, the statistics aggregation of GET and                  *)
(* calculateCategoryStats, and the external collections they read; and of *)
(* the page that polls it (src/app/page.tsx): the Dashboard component's    *)
(* fetches, interval timer and screens, and its status card.               *)
(*                                                                         *)
(* Time is counted in minutes; a stored timestamp string is either the ISO *)
(* text of a minute or unparseable text.  A JavaScript number is a reduced *)
(* fraction n/d, an infinity (d = 0) or NaN.                               *)
(***************************************************************************)
EXTENDS Integers, Sequences, FiniteSets

VARIABLES
    now,          \* the real-time clock, in minutes
    heartbeat,    \* document system_status/heartbeat
    predictions,  \* collection bitcoin_predictions, in insertion order
    modelPerf,    \* collection model_performance
    faults,       \* the external calls that currently fail
    response,     \* the response of the request being observed
    previous,     \* the response of the request before it, where one is kept
    dashboard,    \* the state of the Dashboard component (src/app/page.tsx)
    browser       \* the page's interval timers and its fetches

vars == <<now, heartbeat, predictions, modelPerf, faults, response, previous,
          dashboard, browser>>

page == <<dashboard, browser>>

env == <<now, heartbeat, predictions, modelPerf, faults>>

\* no page is open
NotMounted == [mounted |-> FALSE]

NoPage == [open |-> FALSE]

-----------------------------------------------------------------------------
(* Bounds of the model.                                                    *)

MaxTicks == 2

MaxPreds == 2

MaxFetches == 3

-----------------------------------------------------------------------------
(* JavaScript numbers.                                                     *)

NaN == [nan |-> TRUE, n |-> 0, d |-> 1]

Abs(i) == IF i < 0 THEN 0 - i ELSE i

Sign(i) == IF i < 0 THEN 0 - 1 ELSE IF i > 0 THEN 1 ELSE 0

RECURSIVE GCD(_, _)
GCD(a, b) == IF b = 0 THEN a ELSE GCD(b, a % b)

\* the number n/d, reduced; d = 0 gives an infinity, 0/0 gives NaN
Frac(n, d) ==
    IF d = 0
    THEN IF n = 0 THEN NaN ELSE [nan |-> FALSE, n |-> Sign(n), d |-> 0]
    ELSE LET g == GCD(Abs(n), Abs(d))
             s == Sign(d)
         IN  [nan |-> FALSE, n |-> (s * n) \div g, d |-> (s * d) \div g]

Num(i) == [nan |-> FALSE, n |-> i, d |-> 1]

NumAdd(a, b) ==
    IF a.nan \/ b.nan THEN NaN
    ELSE IF a.d = 0 /\ b.d = 0
         THEN IF a.n = b.n THEN a ELSE NaN
         ELSE IF a.d = 0 THEN a
         ELSE IF b.d = 0 THEN b
         ELSE Frac(a.n * b.d + b.n * a.d, a.d * b.d)

NumSub(a, b) == NumAdd(a, [b EXCEPT !.n = 0 - b.n])

NumMul(a, b) ==
    IF a.nan \/ b.nan THEN NaN ELSE Frac(a.n * b.n, a.d * b.d)

NumDiv(a, b) ==
    IF a.nan \/ b.nan THEN NaN
    ELSE Frac(a.n * b.d * Sign(b.n) , a.d * Abs(b.n))

\* a < b; false when either side is NaN
NumLt(a, b) ==
    /\ ~a.nan
    /\ ~b.nan
    /\ IF a.d = 0 /\ b.d = 0 THEN a.n < b.n ELSE a.n * b.d < b.n * a.d

\* a <= b; false when either side is NaN
NumLe(a, b) ==
    /\ ~a.nan
    /\ ~b.nan
    /\ IF a.d = 0 /\ b.d = 0 THEN a.n <= b.n ELSE a.n * b.d <= b.n * a.d

-----------------------------------------------------------------------------
(* Dates.  A timestamp string is [ok, t]: the ISO text of minute t, or     *)
(* text that no date parser accepts.                                       *)

Iso(t) == [ok |-> TRUE, t |-> t]

BadText == [ok |-> FALSE, t |-> 0]

\* new Date(text): never throws; unparseable text gives the Invalid Date,
\* whose time value is NaN
NewDate(text) == IF text.ok THEN Num(text.t * 60000) ELSE NaN

\* new Date(): the current instant, in milliseconds
DateNow(clock) == Num(clock * 60000)


-----------------------------------------------------------------------------
(* Status resolver: getSystemStatus.                                       *)

NoHeartbeat ==
    [exists |-> FALSE, status |-> "none", timestamp |-> BadText,
     message |-> "none"]

\* the values the heartbeat's status field is given; "none": no such field
HeartbeatStatuses ==
    {"offline", "error", "starting", "running", "stopping", "online", "none"}

OnlineWithinMinutes == 2

OfflineAfterMinutes == 10

\* lines 39-44: the parsed heartbeat time.  new Date(text) does not throw,
\* so the catch that would substitute the current time is never entered.
LastTimestamp(data, clock) == NewDate(data.timestamp)

\* line 47
MinutesSinceLastHeartbeat(data, clock) ==
    NumDiv(NumDiv(NumSub(DateNow(clock), LastTimestamp(data, clock)),
                  Num(1000)),
           Num(60))

\* the same chain with the elapsed-time bands tested before the explicit field
ResolveStatusElapsedFirst(data, clock) ==
    LET m == MinutesSinceLastHeartbeat(data, clock)
    IN  IF NumLt(m, Num(OnlineWithinMinutes)) THEN "online"
        ELSE IF NumLt(m, Num(OfflineAfterMinutes)) THEN "online"
        ELSE IF data.status = "offline" THEN "offline"
        ELSE IF data.status = "error" THEN "error"
        ELSE IF data.status = "starting" THEN "starting"
        ELSE IF data.status = "running" THEN "running"
        ELSE "offline"

\* the same chain with the two elapsed-time bands exchanged for one at 2 minutes
ResolveStatusShortBand(data, clock) ==
    LET m == MinutesSinceLastHeartbeat(data, clock)
    IN  IF data.status = "offline" THEN "offline"
        ELSE IF data.status = "error" THEN "error"
        ELSE IF data.status = "starting" THEN "starting"
        ELSE IF data.status = "running" THEN "running"
        ELSE IF NumLt(m, Num(OnlineWithinMinutes)) THEN "online"
        ELSE "offline"

\* the same chain without the branches for "starting" and "running"
ResolveStatusNoPassThrough(data, clock) ==
    LET m == MinutesSinceLastHeartbeat(data, clock)
    IN  IF data.status = "offline" THEN "offline"
        ELSE IF data.status = "error" THEN "error"
        ELSE IF NumLt(m, Num(OnlineWithinMinutes)) THEN "online"
        ELSE IF NumLt(m, Num(OfflineAfterMinutes)) THEN "online"
        ELSE "offline"

\* lines 49-66: the if/else chain that determines the status
ResolveStatus(data, clock) ==
    LET m == MinutesSinceLastHeartbeat(data, clock)
    IN  IF data.status = "offline" THEN "offline"
        ELSE IF data.status = "error" THEN "error"
        ELSE IF data.status = "starting" THEN "starting"
        ELSE IF data.status = "running" THEN "running"
        ELSE IF NumLt(m, Num(OnlineWithinMinutes)) THEN "online"
        ELSE IF NumLt(m, Num(OfflineAfterMinutes)) THEN "online"
        ELSE "offline"

\* the missing-document branch answering as a failed read does
NoHeartbeatStatusAsError(clock) ==
    [status |-> "error", timestamp |-> Iso(clock),
     message |-> "Error fetching status"]

\* lines 87-93: no heartbeat document
NoHeartbeatStatus(clock) ==
    [status |-> "offline", timestamp |-> Iso(clock),
     message |-> "No heartbeat data found"]

\* lines 31-102: getSystemStatus(db)
GetSystemStatus(doc, clock, failing) ==
    IF "heartbeat" \in failing
    THEN [status |-> "error", timestamp |-> Iso(clock),
          message |-> "Error fetching status"]
    ELSE IF doc.exists
         THEN [status |-> ResolveStatus(doc, clock),
               timestamp |-> doc.timestamp,
               message |-> doc.message]
         ELSE NoHeartbeatStatus(clock)

\* lines 18-29: getCurrentBTCPrice(); the feed quotes 50000
GetCurrentBTCPrice(failing) == IF "feed" \in failing THEN 0 ELSE 50000

-----------------------------------------------------------------------------
(* Prediction records and the shared timeframe tables.                     *)

\* the table with the boundary timeframe 5 listed under short as well
TimeframeCategoriesOverlapping ==
    [c \in {"ultra_short", "short", "medium", "long"} |->
        CASE c = "ultra_short" -> <<1, 2, 3, 5>>
          [] c = "short"       -> <<5, 10, 15, 20, 30, 45, 60>>
          [] c = "medium"      -> <<120, 180, 240, 360, 480, 720>>
          [] c = "long"        -> <<1440, 2880, 4320, 5760, 7200, 10080>>]

\* src/lib/firebase.ts, TIMEFRAME_CATEGORIES
TIMEFRAME_CATEGORIES ==
    [c \in {"ultra_short", "short", "medium", "long"} |->
        CASE c = "ultra_short" -> <<1, 2, 3, 5>>
          [] c = "short"       -> <<10, 15, 20, 30, 45, 60>>
          [] c = "medium"      -> <<120, 180, 240, 360, 480, 720>>
          [] c = "long"        -> <<1440, 2880, 4320, 5760, 7200, 10080>>]

\* calculateCategoryStats, line 105
categories == <<"ultra_short", "short", "medium", "long">>

\* GET, line 240
activeTimeframes == <<5, 10, 15, 30, 60, 120, 240, 480, 720, 1440>>

\* Array.prototype.includes
Includes(arr, x) == \E i \in DOMAIN arr : arr[i] = x

\* an optional numeric field of a document
Absent == [has |-> FALSE, v |-> 0]

Present(v) == [has |-> TRUE, v |-> v]

\* (field || 0): undefined and 0 are falsy
OrZero(field) == IF field.has /\ field.v # 0 THEN Num(field.v) ELSE Num(0)

\* the reducer returning the element's error without adding the sum so far
SumPriceErrorLastOnly(group) ==
    IF group = <<>> THEN Num(0)
    ELSE OrZero(group[Len(group)].price_error)

\* reduce((sum, p) => sum + (p.price_error || 0), 0)
RECURSIVE SumPriceError(_)
SumPriceError(group) ==
    IF group = <<>> THEN Num(0)
    ELSE NumAdd(SumPriceError(SubSeq(group, 1, Len(group) - 1)),
                OrZero(group[Len(group)].price_error))

\* reduce((sum, p) => sum + (p.price_error_pct || 0), 0)
RECURSIVE SumPriceErrorPct(_)
SumPriceErrorPct(group) ==
    IF group = <<>> THEN Num(0)
    ELSE NumAdd(SumPriceErrorPct(SubSeq(group, 1, Len(group) - 1)),
                OrZero(group[Len(group)].price_error_pct))

IsWin(p) == p.validation_result = "WIN"

IsLose(p) == p.validation_result = "LOSE"

-----------------------------------------------------------------------------
(* The queries of GET and its statistics.                                  *)

RecentLimit == 30

PendingLimit == 100

WindowDays == 7

\* slice(0, n)
Take(arr, n) == SubSeq(arr, 1, IF Len(arr) < n THEN Len(arr) ELSE n)

\* orderBy('timestamp', 'desc'): later minute first, records of the same
\* minute in the order they were written; each record goes to the place
\* given by the number of records that come before it
OrderByTimestampDesc(docs) ==
    LET n    == Len(docs)
        rank == [i \in 1..n |->
                    1 + Cardinality(
                        {j \in 1..n :
                            \/ docs[j].timestamp.t > docs[i].timestamp.t
                            \/ /\ docs[j].timestamp.t = docs[i].timestamp.t
                               /\ j < i})]
    IN  [k \in 1..n |-> docs[CHOOSE i \in 1..n : rank[i] = k]]

\* lines 153-162
RecentPredictions(docs) == Take(OrderByTimestampDesc(docs), RecentLimit)

\* the due filter with a strict comparison
IsDueStrict(pred, clock) == NumLt(NewDate(pred.target_time), DateNow(clock))

\* lines 181-188: the due filter
IsDue(pred, clock) == NumLe(NewDate(pred.target_time), DateNow(clock))

\* the due filter applied to every unvalidated record, the limit after it
PendingPredictionsFilterFirst(docs, clock) ==
    LET unvalidated(p) == p.validated = FALSE
        due(p)         == IsDue(p, clock)
    IN  Take(SelectSeq(OrderByTimestampDesc(SelectSeq(docs, unvalidated)),
                       due),
             PendingLimit)

\* lines 168-188
PendingPredictions(docs, clock) ==
    LET unvalidated(p)  == p.validated = FALSE
        due(p)          == IsDue(p, clock)
        pendingSnapshot ==
            Take(OrderByTimestampDesc(SelectSeq(docs, unvalidated)),
                 PendingLimit)
    IN  SelectSeq(pendingSnapshot, due)

\* lines 194-195: sevenDaysAgo
SevenDaysAgo(clock) == Num((clock - WindowDays * 24 * 60) * 60000)

\* the window test written as "not before the window"
InWindowNotBefore(pred, clock) ==
    ~NumLt(NewDate(pred.prediction_time), SevenDaysAgo(clock))

\* the window test with a strict comparison
InWindowStrict(pred, clock) ==
    NumLt(SevenDaysAgo(clock), NewDate(pred.prediction_time))

\* lines 204-211: predTime >= sevenDaysAgo
InWindow(pred, clock) ==
    NumLe(SevenDaysAgo(clock), NewDate(pred.prediction_time))

\* the validated query without its where clause
ValidatedPredictionsUnfiltered(docs, clock) ==
    LET windowed(p) == InWindow(p, clock)
    IN  SelectSeq(docs, windowed)

\* lines 197-211
ValidatedPredictions(docs, clock) ==
    LET validated(p) == p.validated = TRUE
        windowed(p)  == InWindow(p, clock)
    IN  SelectSeq(SelectSeq(docs, validated), windowed)


\* the overall aggregate with the win rate taken over the losses
OverallStatsRateOfLosses(validatedPredictions, clock) ==
    LET totalPredictions == Len(validatedPredictions)
        wins          == Len(SelectSeq(validatedPredictions, IsWin))
        losses        == Len(SelectSeq(validatedPredictions, IsLose))
        totalError    == SumPriceError(validatedPredictions)
        totalErrorPct == SumPriceErrorPct(validatedPredictions)
    IN  [period_days       |-> 7,
         total_predictions |-> totalPredictions,
         wins              |-> wins,
         losses            |-> losses,
         win_rate          |-> IF totalPredictions > 0
                               THEN NumMul(NumDiv(Num(losses),
                                                  Num(totalPredictions)),
                                           Num(100))
                               ELSE Num(0),
         avg_error         |-> IF totalPredictions > 0
                               THEN NumDiv(totalError, Num(totalPredictions))
                               ELSE Num(0),
         avg_error_pct     |-> IF totalPredictions > 0
                               THEN NumDiv(totalErrorPct,
                                           Num(totalPredictions))
                               ELSE Num(0),
         last_updated      |-> Iso(clock)]

\* the overall aggregate with the win rate taken against the losses
OverallStatsWinsPerLoss(validatedPredictions, clock) ==
    LET totalPredictions == Len(validatedPredictions)
        wins          == Len(SelectSeq(validatedPredictions, IsWin))
        losses        == Len(SelectSeq(validatedPredictions, IsLose))
        totalError    == SumPriceError(validatedPredictions)
        totalErrorPct == SumPriceErrorPct(validatedPredictions)
    IN  [period_days       |-> 7,
         total_predictions |-> totalPredictions,
         wins              |-> wins,
         losses            |-> losses,
         win_rate          |-> IF totalPredictions > 0
                               THEN NumMul(NumDiv(Num(wins), Num(losses)),
                                           Num(100))
                               ELSE Num(0),
         avg_error         |-> IF totalPredictions > 0
                               THEN NumDiv(totalError, Num(totalPredictions))
                               ELSE Num(0),
         avg_error_pct     |-> IF totalPredictions > 0
                               THEN NumDiv(totalErrorPct,
                                           Num(totalPredictions))
                               ELSE Num(0),
         last_updated      |-> Iso(clock)]

\* lines 213-229: overallStats
OverallStats(validatedPredictions, clock) ==
    LET totalPredictions == Len(validatedPredictions)
        wins          == Len(SelectSeq(validatedPredictions, IsWin))
        losses        == Len(SelectSeq(validatedPredictions, IsLose))
        totalError    == SumPriceError(validatedPredictions)
        totalErrorPct == SumPriceErrorPct(validatedPredictions)
    IN  [period_days       |-> 7,
         total_predictions |-> totalPredictions,
         wins              |-> wins,
         losses            |-> losses,
         win_rate          |-> IF totalPredictions > 0
                               THEN NumMul(NumDiv(Num(wins),
                                                  Num(totalPredictions)),
                                           Num(100))
                               ELSE Num(0),
         avg_error         |-> IF totalPredictions > 0
                               THEN NumDiv(totalError, Num(totalPredictions))
                               ELSE Num(0),
         avg_error_pct     |-> IF totalPredictions > 0
                               THEN NumDiv(totalErrorPct,
                                           Num(totalPredictions))
                               ELSE Num(0),
         last_updated      |-> Iso(clock)]

\* the per-timeframe aggregate without the guards on an empty group
TimeframeStatsUnguarded(validatedPredictions, tf, clock) ==
    LET ofTf(p)         == p.timeframe_minutes = tf
        tfPredictions   == SelectSeq(validatedPredictions, ofTf)
        tfTotal         == Len(tfPredictions)
        tfWins          == Len(SelectSeq(tfPredictions, IsWin))
        tfLosses        == Len(SelectSeq(tfPredictions, IsLose))
        tfTotalError    == SumPriceError(tfPredictions)
        tfTotalErrorPct == SumPriceErrorPct(tfPredictions)
    IN  [timeframe_minutes |-> tf,
         period_days       |-> 7,
         total_predictions |-> tfTotal,
         wins              |-> tfWins,
         losses            |-> tfLosses,
         win_rate          |-> NumMul(NumDiv(Num(tfWins), Num(tfTotal)),
                                      Num(100)),
         avg_error         |-> NumDiv(tfTotalError, Num(tfTotal)),
         avg_error_pct     |-> NumDiv(tfTotalErrorPct, Num(tfTotal)),
         last_updated      |-> Iso(clock)]

\* the per-timeframe aggregate with the losses taken as total minus wins
TimeframeStatsLossesByDifference(validatedPredictions, tf, clock) ==
    LET ofTf(p)         == p.timeframe_minutes = tf
        tfPredictions   == SelectSeq(validatedPredictions, ofTf)
        tfTotal         == Len(tfPredictions)
        tfWins          == Len(SelectSeq(tfPredictions, IsWin))
        tfLosses        == tfTotal - tfWins
        tfTotalError    == SumPriceError(tfPredictions)
        tfTotalErrorPct == SumPriceErrorPct(tfPredictions)
    IN  [timeframe_minutes |-> tf,
         period_days       |-> 7,
         total_predictions |-> tfTotal,
         wins              |-> tfWins,
         losses            |-> tfLosses,
         win_rate          |-> IF tfTotal > 0
                               THEN NumMul(NumDiv(Num(tfWins), Num(tfTotal)),
                                           Num(100))
                               ELSE Num(0),
         avg_error         |-> IF tfTotal > 0
                               THEN NumDiv(tfTotalError, Num(tfTotal))
                               ELSE Num(0),
         avg_error_pct     |-> IF tfTotal > 0
                               THEN NumDiv(tfTotalErrorPct, Num(tfTotal))
                               ELSE Num(0),
         last_updated      |-> Iso(clock)]

\* lines 241-261: one element of timeframeStats
TimeframeStats(validatedPredictions, tf, clock) ==
    LET ofTf(p)         == p.timeframe_minutes = tf
        tfPredictions   == SelectSeq(validatedPredictions, ofTf)
        tfTotal         == Len(tfPredictions)
        tfWins          == Len(SelectSeq(tfPredictions, IsWin))
        tfLosses        == Len(SelectSeq(tfPredictions, IsLose))
        tfTotalError    == SumPriceError(tfPredictions)
        tfTotalErrorPct == SumPriceErrorPct(tfPredictions)
    IN  [timeframe_minutes |-> tf,
         period_days       |-> 7,
         total_predictions |-> tfTotal,
         wins              |-> tfWins,
         losses            |-> tfLosses,
         win_rate          |-> IF tfTotal > 0
                               THEN NumMul(NumDiv(Num(tfWins), Num(tfTotal)),
                                           Num(100))
                               ELSE Num(0),
         avg_error         |-> IF tfTotal > 0
                               THEN NumDiv(tfTotalError, Num(tfTotal))
                               ELSE Num(0),
         avg_error_pct     |-> IF tfTotal > 0
                               THEN NumDiv(tfTotalErrorPct, Num(tfTotal))
                               ELSE Num(0),
         last_updated      |-> Iso(clock)]

\* the category aggregate with wins and losses counted over every prediction
\* handed in instead of over the category's
CategoryStatsCountsAll(preds, category) ==
    LET timeframes          == TIMEFRAME_CATEGORIES[category]
        inCategory(p)       == Includes(timeframes, p.timeframe_minutes)
        categoryPredictions == SelectSeq(preds, inCategory)
        total         == Len(categoryPredictions)
        wins          == Len(SelectSeq(preds, IsWin))
        losses        == Len(SelectSeq(preds, IsLose))
        totalError    == SumPriceError(categoryPredictions)
        totalErrorPct == SumPriceErrorPct(categoryPredictions)
    IN  [category          |-> category,
         timeframes        |-> timeframes,
         total_predictions |-> total,
         wins              |-> wins,
         losses            |-> losses,
         win_rate          |-> IF total > 0
                               THEN NumMul(NumDiv(Num(wins), Num(total)),
                                           Num(100))
                               ELSE Num(0),
         avg_error         |-> IF total > 0
                               THEN NumDiv(totalError, Num(total))
                               ELSE Num(0),
         avg_error_pct     |-> IF total > 0
                               THEN NumDiv(totalErrorPct, Num(total))
                               ELSE Num(0)]

\* lines 107-130: one element of calculateCategoryStats's result
CategoryStats(preds, category) ==
    LET timeframes          == TIMEFRAME_CATEGORIES[category]
        inCategory(p)       == Includes(timeframes, p.timeframe_minutes)
        categoryPredictions == SelectSeq(preds, inCategory)
        total         == Len(categoryPredictions)
        wins          == Len(SelectSeq(categoryPredictions, IsWin))
        losses        == Len(SelectSeq(categoryPredictions, IsLose))
        totalError    == SumPriceError(categoryPredictions)
        totalErrorPct == SumPriceErrorPct(categoryPredictions)
    IN  [category          |-> category,
         timeframes        |-> timeframes,
         total_predictions |-> total,
         wins              |-> wins,
         losses            |-> losses,
         win_rate          |-> IF total > 0
                               THEN NumMul(NumDiv(Num(wins), Num(total)),
                                           Num(100))
                               ELSE Num(0),
         avg_error         |-> IF total > 0
                               THEN NumDiv(totalError, Num(total))
                               ELSE Num(0),
         avg_error_pct     |-> IF total > 0
                               THEN NumDiv(totalErrorPct, Num(total))
                               ELSE Num(0)]

\* lines 104-131: calculateCategoryStats(predictions)
calculateCategoryStats(preds) ==
    [i \in DOMAIN categories |-> CategoryStats(preds, categories[i])]

\* lines 267-278: the latest model_performance document, or null
ModelPerformance(docs) ==
    IF docs = <<>> THEN [present |-> FALSE, id |-> 0]
    ELSE [present |-> TRUE, id |-> OrderByTimestampDesc(docs)[1].id]

NoResponse == [kind |-> "none"]

\* lines 305-328: the error document, sent with status 500
ErrorDocument ==
    [kind |-> "error", httpStatus |-> 500, error |-> "Failed to fetch data"]

\* the dashboard document listing only the groups that hold a record
DashboardDocumentNonEmptyGroups(doc, docs, perf, clock, failing) ==
    LET validatedPredictions == ValidatedPredictions(docs, clock)
        nonEmpty(g)          == g.total_predictions > 0
    IN  [kind               |-> "dashboard",
         httpStatus         |-> 200,
         currentPrice       |-> GetCurrentBTCPrice(failing),
         overallStats       |-> OverallStats(validatedPredictions, clock),
         timeframeStats     |->
             SelectSeq(
                 [i \in DOMAIN activeTimeframes |->
                     TimeframeStats(validatedPredictions,
                                    activeTimeframes[i], clock)],
                 nonEmpty),
         categoryStats      |->
             SelectSeq(calculateCategoryStats(validatedPredictions),
                       nonEmpty),
         recentPredictions  |-> RecentPredictions(docs),
         pendingPredictions |-> PendingPredictions(docs, clock),
         modelPerformance   |-> ModelPerformance(perf),
         systemStatus       |-> GetSystemStatus(doc, clock, failing),
         lastUpdate         |-> Iso(clock)]

\* lines 133-303: the dashboard document, sent with status 200
DashboardDocument(doc, docs, perf, clock, failing) ==
    LET systemStatus         == GetSystemStatus(doc, clock, failing)
        currentPrice         == GetCurrentBTCPrice(failing)
        validatedPredictions == ValidatedPredictions(docs, clock)
    IN  [kind               |-> "dashboard",
         httpStatus         |-> 200,
         currentPrice       |-> currentPrice,
         overallStats       |-> OverallStats(validatedPredictions, clock),
         timeframeStats     |->
             [i \in DOMAIN activeTimeframes |->
                 TimeframeStats(validatedPredictions, activeTimeframes[i],
                                clock)],
         categoryStats      |-> calculateCategoryStats(validatedPredictions),
         recentPredictions  |-> RecentPredictions(docs),
         pendingPredictions |-> PendingPredictions(docs, clock),
         modelPerformance   |-> ModelPerformance(perf),
         systemStatus       |-> systemStatus,
         lastUpdate         |-> Iso(clock)]

\* GET answering with what it had read when a store query failed
HandleGETPartial(doc, docs, perf, clock, failing) ==
    IF "query" \in failing
    THEN [kind         |-> "dashboard",
          httpStatus   |-> 200,
          currentPrice |-> GetCurrentBTCPrice(failing),
          systemStatus |-> GetSystemStatus(doc, clock, failing),
          lastUpdate   |-> Iso(clock)]
    ELSE DashboardDocument(doc, docs, perf, clock, failing)

\* GET reading the first model_performance document without testing for
\* an empty snapshot
HandleGETRequiresModelPerformance(doc, docs, perf, clock, failing) ==
    IF "query" \in failing \/ perf = <<>>
    THEN ErrorDocument
    ELSE DashboardDocument(doc, docs, perf, clock, failing)

\* lines 133-329: GET(); a failing store query throws into the catch
HandleGET(doc, docs, perf, clock, failing) ==
    IF "query" \in failing
    THEN ErrorDocument
    ELSE DashboardDocument(doc, docs, perf, clock, failing)

-----------------------------------------------------------------------------
(* The external writers of the store, the clock and the upstream faults.   *)
(* They move only between requests, so that a response is compared with    *)
(* the very inputs it was computed from.                                   *)

\* the clock advances by a minute
Tick ==
    /\ response = NoResponse
    /\ now < MaxTicks
    /\ now' = now + 1
    /\ UNCHANGED <<heartbeat, predictions, modelPerf, faults, response, previous,
                 page>>

\* the minutes a heartbeat is stamped with: the current one, or one that is
\* OfflineAfterMinutes old when the clock reaches MaxTicks
HeartbeatStamps == {Iso(now), Iso(MaxTicks - OfflineAfterMinutes), BadText}

\* the prediction process writes its heartbeat document
HeartbeatWrite ==
    /\ response = NoResponse
    /\ \E st \in HeartbeatStatuses, ts \in HeartbeatStamps :
          heartbeat' = [exists |-> TRUE, status |-> st, timestamp |-> ts,
                        message |-> "beat"]
    /\ UNCHANGED <<now, predictions, modelPerf, faults, response, previous,
                 page>>

Upstreams == {"heartbeat", "feed", "query"}

\* an external call starts failing
InjectFault ==
    /\ response = NoResponse
    /\ \E f \in Upstreams \ faults : faults' = faults \cup {f}
    /\ UNCHANGED <<now, heartbeat, predictions, modelPerf, response, previous,
                 page>>

\* an external call recovers
ClearFault ==
    /\ response = NoResponse
    /\ \E f \in faults : faults' = faults \ {f}
    /\ UNCHANGED <<now, heartbeat, predictions, modelPerf, response, previous,
                 page>>

\* the training process writes a model_performance document
PublishModelPerformance ==
    /\ response = NoResponse
    /\ modelPerf = <<>>
    /\ modelPerf' = <<[id |-> 1, timestamp |-> Iso(now)]>>
    /\ UNCHANGED <<now, heartbeat, predictions, faults, response, previous,
                 page>>

\* the timeframes the prediction process is run with here: two active ones
\* and one that is in a category without being active
PredictedTimeframes == {5, 15, 20}

\* prediction_time texts: written now, written exactly WindowDays ago,
\* written a minute before that, or unparseable
PredictionTimes ==
    {Iso(now), Iso(now - WindowDays * 24 * 60),
     Iso(now - WindowDays * 24 * 60 - 1), BadText}

\* the prediction process adds a record (interface Prediction)
CreatePrediction ==
    /\ response = NoResponse
    /\ Len(predictions) < MaxPreds
    /\ \E tf \in PredictedTimeframes, pt \in PredictionTimes :
          predictions' = Append(predictions,
              [id                |-> Len(predictions) + 1,
               timestamp         |-> IF pt.ok THEN pt ELSE Iso(now),
               prediction_time   |-> pt,
               target_time       |-> IF pt.ok THEN Iso(pt.t + tf)
                                     ELSE BadText,
               timeframe_minutes |-> tf,
               validated         |-> FALSE,
               validation_result |-> "null",
               price_error       |-> Absent,
               price_error_pct   |-> Absent])
    /\ UNCHANGED <<now, heartbeat, modelPerf, faults, response, previous,
                 page>>

\* what the validator writes: a result with its absolute and percentage
\* price error, or (a malformed write) no result and no error fields
ValidationOutcomes ==
    {[result |-> "WIN",  price_error |-> Present(10), price_error_pct |-> Present(1)],
     [result |-> "LOSE", price_error |-> Present(30), price_error_pct |-> Present(2)],
     [result |-> "null", price_error |-> Absent,      price_error_pct |-> Absent]}

\* the external validator attaches the validation fields, once per record
ValidatePrediction ==
    /\ response = NoResponse
    /\ \E i \in DOMAIN predictions :
          /\ ~predictions[i].validated
          /\ \E o \in ValidationOutcomes :
                predictions' =
                    [predictions EXCEPT
                        ![i].validated = TRUE,
                        ![i].validation_result = o.result,
                        ![i].price_error = o.price_error,
                        ![i].price_error_pct = o.price_error_pct]
    /\ UNCHANGED <<now, heartbeat, modelPerf, faults, response, previous,
                 page>>

-----------------------------------------------------------------------------
(* The endpoint.                                                           *)

\* lines 133-329: one request, answered from the current store and clock
GET ==
    /\ response = NoResponse
    /\ response' = HandleGET(heartbeat, predictions, modelPerf, now, faults)
    /\ UNCHANGED <<env, previous, page>>

\* the response is sent and the request is over
Deliver ==
    /\ response # NoResponse
    /\ response' = NoResponse
    /\ UNCHANGED <<env, previous, page>>

-----------------------------------------------------------------------------
(* Specifications.                                                         *)

\* ten validated records of timeframe 15 written now, six WIN and four LOSE
TenValidated ==
    [i \in 1..10 |->
        [id                |-> i,
         timestamp         |-> Iso(0),
         prediction_time   |-> Iso(0),
         target_time       |-> Iso(15),
         timeframe_minutes |-> 15,
         validated         |-> TRUE,
         validation_result |-> IF i <= 6 THEN "WIN" ELSE "LOSE",
         price_error       |-> IF i <= 6 THEN Present(10) ELSE Present(30),
         price_error_pct   |-> IF i <= 6 THEN Present(1) ELSE Present(2)]]

\* the heartbeat, the clock, the model metrics and the upstream faults vary
\* over an empty prediction collection
Init ==
    /\ now = 0
    /\ heartbeat = NoHeartbeat
    /\ predictions = <<>>
    /\ modelPerf = <<>>
    /\ faults = {}
    /\ response = NoResponse
    /\ previous = NoResponse
    /\ dashboard = NotMounted
    /\ browser = NoPage

Next ==
    \/ Tick
    \/ HeartbeatWrite
    \/ InjectFault
    \/ ClearFault
    \/ PublishModelPerformance
    \/ GET
    \/ Deliver

Spec == Init /\ [][Next]_vars

\* the prediction collection varies, with no heartbeat and no fault
InitStats ==
    /\ now = 0
    /\ heartbeat = NoHeartbeat
    /\ predictions \in {<<>>, TenValidated}
    /\ modelPerf = <<>>
    /\ faults = {}
    /\ response = NoResponse
    /\ previous = NoResponse
    /\ dashboard = NotMounted
    /\ browser = NoPage

NextStats ==
    \/ CreatePrediction
    \/ ValidatePrediction
    \/ GET
    \/ Deliver

SpecStats == InitStats /\ [][NextStats]_vars

-----------------------------------------------------------------------------
(* Properties of the status resolver, under Spec.                          *)

\* a request was answered with a dashboard document whose status was
\* resolved from the stored heartbeat record
ResolvedFromRecord ==
    /\ response.kind = "dashboard"
    /\ "heartbeat" \notin faults
    /\ heartbeat.exists

ExplicitStatuses == {"offline", "error", "starting", "running"}

\* whole minutes between the heartbeat's (parseable) timestamp and the clock
Elapsed == now - heartbeat.timestamp.t

\* C1: a heartbeat record whose status field is "running" or "starting"
\* resolves to that same status, whatever the time elapsed since its
\* timestamp (also when the timestamp is ten minutes old or unparseable).
C1_RunningStartingPassThrough ==
    (ResolvedFromRecord /\ heartbeat.status \in {"running", "starting"})
        => response.systemStatus.status = heartbeat.status

\* a "running" record, ten minutes old or more, was resolved
C1_Witness ==
    /\ ResolvedFromRecord
    /\ heartbeat.status = "running"
    /\ heartbeat.timestamp.ok
    /\ Elapsed >= OfflineAfterMinutes
    /\ response.systemStatus.status = "running"

\* C2: a heartbeat record whose status field is "offline" or "error"
\* resolves to that value, whatever the elapsed time (also under 2 minutes).
C2_OfflineErrorPropagated ==
    (ResolvedFromRecord /\ heartbeat.status \in {"offline", "error"})
        => response.systemStatus.status = heartbeat.status

\* an "error" record stamped in the current minute was resolved
C2_Witness ==
    /\ ResolvedFromRecord
    /\ heartbeat.status = "error"
    /\ heartbeat.timestamp.ok
    /\ Elapsed < OnlineWithinMinutes
    /\ response.systemStatus.status = "error"

\* C3: when the status field is none of offline/error/starting/running, the
\* resolved status depends on the elapsed minutes alone: under 2 online,
\* from 2 to under 10 online, 10 or more offline.
C3_ElapsedBands ==
    (ResolvedFromRecord /\ heartbeat.status \notin ExplicitStatuses
                        /\ heartbeat.timestamp.ok)
        => /\ Elapsed < OnlineWithinMinutes
                => response.systemStatus.status = "online"
           /\ (OnlineWithinMinutes <= Elapsed /\ Elapsed < OfflineAfterMinutes)
                => response.systemStatus.status = "online"
           /\ Elapsed >= OfflineAfterMinutes
                => response.systemStatus.status = "offline"

\* a "stopping" record between 2 and 10 minutes old was resolved to online
C3_Witness ==
    /\ ResolvedFromRecord
    /\ heartbeat.status = "stopping"
    /\ heartbeat.timestamp.ok
    /\ OnlineWithinMinutes <= Elapsed
    /\ Elapsed < OfflineAfterMinutes
    /\ response.systemStatus.status = "online"

\* C4: with no heartbeat record the resolver answers offline with the
\* message "No heartbeat data found", and the request itself succeeds
\* (status 200) unless a store query fails.
C4_NoHeartbeatOffline ==
    (response # NoResponse /\ ~heartbeat.exists
                           /\ "heartbeat" \notin faults
                           /\ "query" \notin faults)
        => /\ response.kind = "dashboard"
           /\ response.httpStatus = 200
           /\ response.systemStatus.status = "offline"
           /\ response.systemStatus.message = "No heartbeat data found"

\* a request was answered while no heartbeat document existed
C4_Witness ==
    /\ response.kind = "dashboard"
    /\ ~heartbeat.exists
    /\ "heartbeat" \notin faults
    /\ response.systemStatus.status = "offline"

\* C5 (as claimed): a record with an unparseable timestamp and no explicit
\* status resolves to online, the current time standing in for the
\* timestamp.
C5_UnparseableResolvesOnline ==
    (ResolvedFromRecord /\ heartbeat.status \notin ExplicitStatuses
                        /\ ~heartbeat.timestamp.ok)
        => response.systemStatus.status = "online"

-----------------------------------------------------------------------------
(* Properties of the statistics, under SpecStats.  The groups are stated   *)
(* over the stored collection itself, by record index.                     *)

Answered == response.kind = "dashboard"

\* the record is validated and its prediction_time is a parseable minute
\* inside the trailing window
Participates(p) ==
    /\ p.validated
    /\ p.prediction_time.ok
    /\ p.prediction_time.t >= now - WindowDays * 24 * 60

Participants == {i \in DOMAIN predictions : Participates(predictions[i])}

OfTimeframe(tf) ==
    {i \in Participants : predictions[i].timeframe_minutes = tf}

OfCategory(c) ==
    {i \in Participants :
        Includes(TIMEFRAME_CATEGORIES[c], predictions[i].timeframe_minutes)}

\* the figures every aggregate carries
Figures(a) ==
    [total |-> a.total_predictions, wins |-> a.wins, losses |-> a.losses,
     win_rate |-> a.win_rate, avg_error |-> a.avg_error,
     avg_error_pct |-> a.avg_error_pct]

\* every aggregate of the response, with the records its group consists of
Groups ==
    {[members |-> Participants, agg |-> Figures(response.overallStats)]}
    \cup {[members |-> OfTimeframe(activeTimeframes[k]),
           agg |-> Figures(response.timeframeStats[k])] :
            k \in DOMAIN activeTimeframes}
    \cup {[members |-> OfCategory(categories[k]),
           agg |-> Figures(response.categoryStats[k])] :
            k \in DOMAIN categories}

FieldValue(f) == IF f.has THEN f.v ELSE 0

RECURSIVE TotalPriceError(_)
TotalPriceError(S) ==
    IF S = {} THEN 0
    ELSE LET i == CHOOSE j \in S : TRUE
         IN  FieldValue(predictions[i].price_error) + TotalPriceError(S \ {i})

RECURSIVE TotalPriceErrorPct(_)
TotalPriceErrorPct(S) ==
    IF S = {} THEN 0
    ELSE LET i == CHOOSE j \in S : TRUE
         IN  FieldValue(predictions[i].price_error_pct)
                 + TotalPriceErrorPct(S \ {i})

\* the number x is the quotient n / d
IsQuotient(x, n, d) == ~x.nan /\ x.d # 0 /\ x.n * d = n * x.d

\* C6: the overall and category aggregates count exactly the records with
\* validated = true and prediction_time >= now - 7 days (a category: those
\* of its timeframes), and the aggregate of timeframe tf exactly those that
\* also have timeframe_minutes = tf; no other record is counted.
C6_OnlyValidatedInWindow ==
    Answered =>
        /\ response.overallStats.total_predictions = Cardinality(Participants)
        /\ \A k \in DOMAIN activeTimeframes :
              response.timeframeStats[k].total_predictions
                  = Cardinality(OfTimeframe(activeTimeframes[k]))
        /\ \A k \in DOMAIN categories :
              response.categoryStats[k].total_predictions
                  = Cardinality(OfCategory(categories[k]))

\* a request was answered over a record on the window's edge, which counts,
\* and a record that does not count
C6_Witness ==
    /\ Answered
    /\ \E i \in Participants :
          predictions[i].prediction_time.t = now - WindowDays * 24 * 60
    /\ \E i \in DOMAIN predictions : i \notin Participants
    /\ response.overallStats.total_predictions = Cardinality(Participants)

\* C7: in every aggregate, total is the size of the group, wins and losses
\* the numbers of its WIN and LOSE records, win_rate = wins / total * 100
\* and the average errors the group's summed price_error and
\* price_error_pct over total, when the group is not empty.
C7_GroupFigures ==
    Answered =>
        \A g \in Groups :
            /\ g.agg.total = Cardinality(g.members)
            /\ g.agg.wins =
                 Cardinality({i \in g.members : IsWin(predictions[i])})
            /\ g.agg.losses =
                 Cardinality({i \in g.members : IsLose(predictions[i])})
            /\ g.members # {} =>
                 /\ IsQuotient(g.agg.win_rate, g.agg.wins * 100,
                               Cardinality(g.members))
                 /\ IsQuotient(g.agg.avg_error, TotalPriceError(g.members),
                               Cardinality(g.members))
                 /\ IsQuotient(g.agg.avg_error_pct,
                               TotalPriceErrorPct(g.members),
                               Cardinality(g.members))

\* ten records of timeframe 15, six WIN and four LOSE, gave the aggregate of
\* timeframe 15 as total 10, wins 6, losses 4, win_rate 60
C7_Witness ==
    /\ Answered
    /\ Len(predictions) = 10
    /\ \E k \in DOMAIN activeTimeframes :
          /\ activeTimeframes[k] = 15
          /\ response.timeframeStats[k].total_predictions = 10
          /\ response.timeframeStats[k].wins = 6
          /\ response.timeframeStats[k].losses = 4
          /\ response.timeframeStats[k].win_rate = Num(60)

\* C8: an aggregate over an empty group has total = wins = losses = 0 and
\* win_rate = avg_error = avg_error_pct = 0, and no figure of any aggregate
\* is the NaN or infinity a division by zero leaves.
C8_EmptyGroupZero ==
    Answered =>
        \A g \in Groups :
            /\ g.members = {} =>
                 /\ g.agg.total = 0
                 /\ g.agg.wins = 0
                 /\ g.agg.losses = 0
                 /\ g.agg.win_rate = Num(0)
                 /\ g.agg.avg_error = Num(0)
                 /\ g.agg.avg_error_pct = Num(0)
            /\ \A x \in {g.agg.win_rate, g.agg.avg_error, g.agg.avg_error_pct} :
                 ~x.nan /\ x.d # 0

\* a request was answered over the empty collection
C8_Witness ==
    /\ Answered
    /\ predictions = <<>>
    /\ response.overallStats.total_predictions = 0
    /\ response.overallStats.win_rate = Num(0)

\* C9: in every aggregate over a non-empty group, 0 <= win_rate <= 100, and
\* win_rate = 0 exactly when wins = 0.
C9_WinRateRange ==
    Answered =>
        \A g \in Groups :
            g.agg.total > 0 =>
                /\ NumLe(Num(0), g.agg.win_rate)
                /\ NumLe(g.agg.win_rate, Num(100))
                /\ (g.agg.win_rate = Num(0)) <=> (g.agg.wins = 0)

\* aggregates over non-empty groups were produced with no win, with only
\* wins, and with both
C9_Witness ==
    /\ Answered
    /\ \E g \in Groups : g.agg.total > 0 /\ g.agg.wins = 0
                            /\ g.agg.win_rate = Num(0)
    /\ \E g \in Groups : g.agg.total > 0 /\ g.agg.win_rate = Num(100)
    /\ \E g \in Groups : g.agg.total > 0 /\ g.agg.win_rate = Num(50)

\* C10: every aggregate has wins + losses <= total.
C10_WinsLossesWithinTotal ==
    Answered =>
        \A g \in Groups : g.agg.wins + g.agg.losses <= g.agg.total

\* an aggregate was produced over a group holding a win and a validated
\* record that is neither a win nor a loss
C10_Witness ==
    /\ Answered
    /\ \E g \in Groups :
          g.agg.wins > 0 /\ g.agg.wins + g.agg.losses < g.agg.total


\* the records of a group whose validation_result is neither WIN nor LOSE
Undecided(S) ==
    {i \in S : ~IsWin(predictions[i]) /\ ~IsLose(predictions[i])}

\* C11 (as claimed): every counted record is a WIN or a LOSE, so that
\* wins + losses = total in every aggregate.
C11_WinsPlusLossesIsTotal ==
    Answered =>
        \A g \in Groups : g.agg.wins + g.agg.losses = g.agg.total

\* C11 (amended): in every aggregate, total exceeds wins + losses by the
\* number of validated in-window records of the group whose
\* validation_result is neither WIN nor LOSE; these are counted in total.
C11_ShortfallIsUndecided ==
    Answered =>
        \A g \in Groups :
            g.agg.total - (g.agg.wins + g.agg.losses)
                = Cardinality(Undecided(g.members))

\* an aggregate was produced over a group holding a validated record with
\* no result beside a decided one
C11_Witness ==
    /\ Answered
    /\ \E g \in Groups :
          /\ Undecided(g.members) # {}
          /\ g.agg.wins + g.agg.losses > 0
          /\ g.agg.total = g.agg.wins + g.agg.losses + 1

\* the categories that list timeframe tf
CategoriesOf(tf) ==
    {k \in DOMAIN categories : Includes(TIMEFRAME_CATEGORIES[categories[k]], tf)}

RECURSIVE SumCategoryTotals(_)
SumCategoryTotals(k) ==
    IF k = 0 THEN 0
    ELSE response.categoryStats[k].total_predictions + SumCategoryTotals(k - 1)

\* C12: no timeframe is listed under two categories and every active
\* timeframe is listed under exactly one; and when every stored record has
\* an active timeframe, the category totals add up to the overall total.
C12_CategoriesPartition ==
    /\ \A j, k \in DOMAIN categories :
          j # k =>
              \A x \in DOMAIN TIMEFRAME_CATEGORIES[categories[j]] :
                  ~Includes(TIMEFRAME_CATEGORIES[categories[k]],
                            TIMEFRAME_CATEGORIES[categories[j]][x])
    /\ \A a \in DOMAIN activeTimeframes :
          Cardinality(CategoriesOf(activeTimeframes[a])) = 1
    /\ (Answered /\ \A i \in DOMAIN predictions :
                       Includes(activeTimeframes,
                                predictions[i].timeframe_minutes))
          => SumCategoryTotals(Len(categories))
                 = response.overallStats.total_predictions

\* a request was answered over counted records of two categories, all of
\* active timeframes
C12_Witness ==
    /\ Answered
    /\ \A i \in DOMAIN predictions :
          Includes(activeTimeframes, predictions[i].timeframe_minutes)
    /\ Cardinality({k \in DOMAIN categories :
                      response.categoryStats[k].total_predictions > 0}) = 2
    /\ SumCategoryTotals(Len(categories))
           = response.overallStats.total_predictions

\* the three sets of aggregates GET computes from a collection
AggregatesOf(docs, clock) ==
    LET validatedPredictions == ValidatedPredictions(docs, clock)
    IN  [overallStats   |-> OverallStats(validatedPredictions, clock),
         timeframeStats |->
             [k \in DOMAIN activeTimeframes |->
                 TimeframeStats(validatedPredictions, activeTimeframes[k],
                                clock)],
         categoryStats  |-> calculateCategoryStats(validatedPredictions)]

AggregatesIn(doc) ==
    [overallStats   |-> doc.overallStats,
     timeframeStats |-> doc.timeframeStats,
     categoryStats  |-> doc.categoryStats]

ParseablePredictionTime(p) == p.prediction_time.ok

\* C16: with no upstream failing the request succeeds whatever the
\* prediction_time texts are, and its overall, per-timeframe and category
\* aggregates equal those of the collection without the records whose
\* prediction_time is unparseable.
C16_UnparseableTimeExcluded ==
    (response # NoResponse /\ faults = {}) =>
        /\ Answered
        /\ AggregatesIn(response)
              = AggregatesOf(SelectSeq(predictions, ParseablePredictionTime),
                             now)

\* a request was answered over a validated record with an unparseable
\* prediction_time and a validated record inside the window
C16_Witness ==
    /\ Answered
    /\ \E i \in DOMAIN predictions :
          /\ predictions[i].validated
          /\ predictions[i].prediction_time = BadText
    /\ response.overallStats.total_predictions > 0

-----------------------------------------------------------------------------
(* Repeated requests over an unchanged collection, under SpecRepeat.       *)

\* the caller keeps the response and the request is over
KeepResponse ==
    /\ response # NoResponse
    /\ previous' = response
    /\ response' = NoResponse
    /\ UNCHANGED <<env, page>>

\* one validated WIN whose prediction_time is on the window's edge when the
\* clock reads c
EdgeOfWindow(c) ==
    [id                |-> 1,
     timestamp         |-> Iso(c - WindowDays * 24 * 60),
     prediction_time   |-> Iso(c - WindowDays * 24 * 60),
     target_time       |-> Iso(c - WindowDays * 24 * 60 + 15),
     timeframe_minutes |-> 15,
     validated         |-> TRUE,
     validation_result |-> "WIN",
     price_error       |-> Present(10),
     price_error_pct   |-> Present(1)]

\* the collection is fixed, the clock and the upstream faults vary, and
\* each response is kept for comparison with the next
InitRepeat ==
    /\ now = 0
    /\ heartbeat = NoHeartbeat
    /\ predictions \in
          {<<>>, TenValidated} \cup {<<EdgeOfWindow(c)>> : c \in 0..MaxTicks}
    /\ modelPerf = <<>>
    /\ faults = {}
    /\ response = NoResponse
    /\ previous = NoResponse
    /\ dashboard = NotMounted
    /\ browser = NoPage

NextRepeat ==
    \/ Tick
    \/ InjectFault
    \/ ClearFault
    \/ GET
    \/ KeepResponse

SpecRepeat == InitRepeat /\ [][NextRepeat]_vars

\* two consecutive requests were both answered with a dashboard document
AnsweredTwice == Answered /\ previous.kind = "dashboard"

\* the record was counted at clock reading c
ParticipatedAt(p, c) ==
    /\ p.validated
    /\ p.prediction_time.ok
    /\ p.prediction_time.t >= c - WindowDays * 24 * 60

\* every record is inside the window at both requests or at neither
SameWindow ==
    \A i \in DOMAIN predictions :
        ParticipatedAt(predictions[i], previous.lastUpdate.t)
            <=> Participates(predictions[i])

\* C13 (as claimed): two requests over an identical collection give
\* overallStats, timeframeStats and categoryStats equal field for field.
C13_IdenticalOutput ==
    AnsweredTwice =>
        /\ response.overallStats = previous.overallStats
        /\ response.timeframeStats = previous.timeframeStats
        /\ response.categoryStats = previous.categoryStats

\* C13 (amended): two requests over an identical collection give identical
\* aggregates when the clock reads the same; at different clock readings
\* the figures of every aggregate (and the category aggregates as a whole)
\* are still identical provided no record has left the window in between,
\* and last_updated is each request's own clock reading.
C13_IdenticalFigures ==
    AnsweredTwice =>
        /\ response.overallStats.last_updated = Iso(now)
        /\ previous.lastUpdate = response.lastUpdate =>
              /\ response.overallStats = previous.overallStats
              /\ response.timeframeStats = previous.timeframeStats
              /\ response.categoryStats = previous.categoryStats
        /\ SameWindow =>
              /\ Figures(response.overallStats) = Figures(previous.overallStats)
              /\ \A k \in DOMAIN activeTimeframes :
                    Figures(response.timeframeStats[k])
                        = Figures(previous.timeframeStats[k])
              /\ response.categoryStats = previous.categoryStats

\* a non-empty collection was aggregated at two clock readings with the
\* same records inside the window
C13_Witness ==
    /\ AnsweredTwice
    /\ previous.lastUpdate # response.lastUpdate
    /\ SameWindow
    /\ response.overallStats.total_predictions > 0
    /\ Figures(response.overallStats) = Figures(previous.overallStats)


-----------------------------------------------------------------------------
(* The pending list, under SpecPending.                                    *)

\* prediction_time texts of a one-minute prediction: its target is a minute
\* ahead, the current minute, a minute past, or unparseable
ShortPredictionTimes == {Iso(now), Iso(now - 1), Iso(now - 2), BadText}

\* the prediction process adds a one-minute prediction (interface
\* Prediction)
CreateShortPrediction ==
    /\ response = NoResponse
    /\ Len(predictions) < MaxPreds
    /\ \E pt \in ShortPredictionTimes :
          predictions' = Append(predictions,
              [id                |-> Len(predictions) + 1,
               timestamp         |-> Iso(now),
               prediction_time   |-> pt,
               target_time       |-> IF pt.ok THEN Iso(pt.t + 1)
                                     ELSE BadText,
               timeframe_minutes |-> 1,
               validated         |-> FALSE,
               validation_result |-> "null",
               price_error       |-> Absent,
               price_error_pct   |-> Absent])
    /\ UNCHANGED <<now, heartbeat, modelPerf, faults, response, previous,
                 page>>

\* the collection is empty or holds one validated record whose target is
\* long past; the clock runs and one-minute predictions are added
InitPending ==
    /\ now = 0
    /\ heartbeat = NoHeartbeat
    /\ predictions \in {<<>>, <<EdgeOfWindow(0)>>}
    /\ modelPerf = <<>>
    /\ faults = {}
    /\ response = NoResponse
    /\ previous = NoResponse
    /\ dashboard = NotMounted
    /\ browser = NoPage

NextPending ==
    \/ Tick
    \/ CreateShortPrediction
    \/ GET
    \/ Deliver

SpecPending == InitPending /\ [][NextPending]_vars

\* the stored unvalidated records whose target_time parses to the current
\* minute or an earlier one
DueNow ==
    {predictions[i] : i \in
        {j \in DOMAIN predictions :
            /\ ~predictions[j].validated
            /\ predictions[j].target_time.ok
            /\ predictions[j].target_time.t <= now}}

Listed(list) == {list[i] : i \in DOMAIN list}

\* C15: with no more unvalidated records than one fetch returns and no
\* upstream failing, the request succeeds and pendingPredictions lists,
\* once each, exactly the unvalidated records whose target_time is at or
\* before now; a record with an unparseable target_time is not listed.
C15_PendingExactlyDue ==
    (response # NoResponse /\ faults = {}
        /\ Len(predictions) <= PendingLimit) =>
        /\ Answered
        /\ Listed(response.pendingPredictions) = DueNow
        /\ Len(response.pendingPredictions) = Cardinality(DueNow)
        /\ \A p \in Listed(response.pendingPredictions) : p.target_time.ok

\* a request was answered with a record due exactly now listed while a
\* record due in a minute or one with an unparseable target is stored
C15_Witness ==
    /\ Answered
    /\ \E p \in Listed(response.pendingPredictions) : p.target_time = Iso(now)
    /\ \E i \in DOMAIN predictions :
          /\ ~predictions[i].validated
          /\ \/ predictions[i].target_time = Iso(now + 1)
             \/ predictions[i].target_time = BadText

-----------------------------------------------------------------------------
(* Failing upstream calls and missing documents, under Spec.               *)

\* C17 (as claimed): a request made while any external call is failing
\* (the heartbeat read, the price feed or a store query) is answered with
\* the failed response, never with a dashboard document.
C17_AnyFailureFails ==
    (response # NoResponse /\ faults # {}) => response.kind = "error"

DashboardFields ==
    {"currentPrice", "overallStats", "timeframeStats", "categoryStats",
     "recentPredictions", "pendingPredictions", "modelPerformance",
     "systemStatus", "lastUpdate"}

CompleteDashboard(doc) ==
    /\ doc.kind = "dashboard"
    /\ doc.httpStatus = 200
    /\ DashboardFields \subseteq DOMAIN doc

ErrorOnly(doc) ==
    /\ doc.kind = "error"
    /\ doc.httpStatus = 500
    /\ "error" \in DOMAIN doc
    /\ DashboardFields \cap DOMAIN doc = {}

\* C18: every response is a dashboard document with all nine fields or an
\* error document with status 500 and none of them; a request during which
\* a store query fails is answered with the error document, whatever was
\* read before.
C18_CompleteOrError ==
    response # NoResponse =>
        /\ CompleteDashboard(response) \/ ErrorOnly(response)
        /\ "query" \in faults => ErrorOnly(response)

\* a store query failed after the heartbeat and the price were read
C18_Witness ==
    /\ response.kind = "error"
    /\ faults = {"query"}
    /\ heartbeat.exists

-----------------------------------------------------------------------------
(* Missing optional documents, under SpecRepeat: there is no heartbeat     *)
(* document and no model_performance document.                             *)

\* C19: with no store query failing, a request over an empty
\* model_performance collection succeeds with modelPerformance null, a
\* request with no heartbeat document succeeds with an offline
\* systemStatus, and the aggregates are those of the stored collection.
C19_MissingOptionalData ==
    (response # NoResponse /\ "query" \notin faults) =>
        /\ CompleteDashboard(response)
        /\ modelPerf = <<>> => ~response.modelPerformance.present
        /\ (~heartbeat.exists /\ "heartbeat" \notin faults) =>
              /\ response.systemStatus.status = "offline"
              /\ response.systemStatus.message = "No heartbeat data found"
        /\ AggregatesIn(response) = AggregatesOf(predictions, now)

\* a request with neither document was answered with aggregates over a
\* non-empty group
C19_Witness ==
    /\ Answered
    /\ modelPerf = <<>>
    /\ ~heartbeat.exists
    /\ faults = {}
    /\ response.overallStats.total_predictions > 0

-----------------------------------------------------------------------------
(* The limits of the two lists, under SpecLimits.                          *)

\* a record written a minute past the window's lower edge as of minute 0
\* and validated as a WIN
OutOfWindow ==
    [id                |-> 1,
     timestamp         |-> Iso(0 - WindowDays * 24 * 60 - 1),
     prediction_time   |-> Iso(0 - WindowDays * 24 * 60 - 1),
     target_time       |-> Iso(0 - WindowDays * 24 * 60 + 14),
     timeframe_minutes |-> 15,
     validated         |-> TRUE,
     validation_result |-> "WIN",
     price_error       |-> Present(10),
     price_error_pct   |-> Present(1)]

\* a one-minute prediction written at minute 0
Fresh ==
    [id                |-> 2,
     timestamp         |-> Iso(0),
     prediction_time   |-> Iso(0),
     target_time       |-> Iso(1),
     timeframe_minutes |-> 1,
     validated         |-> FALSE,
     validation_result |-> "null",
     price_error       |-> Absent,
     price_error_pct   |-> Absent]

\* the i-th of the predictions written before OutOfWindow and never
\* validated, each a minute older than the one before
Stale(i) ==
    [id                |-> 2 + i,
     timestamp         |-> Iso(OutOfWindow.timestamp.t - i),
     prediction_time   |-> Iso(OutOfWindow.timestamp.t - i),
     target_time       |-> Iso(OutOfWindow.timestamp.t - i + 15),
     timeframe_minutes |-> 15,
     validated         |-> FALSE,
     validation_result |-> "null",
     price_error       |-> Absent,
     price_error_pct   |-> Absent]

\* the collection in the order it was written: n stale predictions, the
\* out-of-window one, the fresh one
Outage(n) == [i \in 1..n |-> Stale(n + 1 - i)] \o <<OutOfWindow, Fresh>>

\* collections one short of, at and one over each list's limit
InitLimits ==
    /\ now = 0
    /\ heartbeat = NoHeartbeat
    /\ predictions \in
          {Outage(n) : n \in {RecentLimit - 3, RecentLimit - 2,
                              RecentLimit - 1, PendingLimit - 2,
                              PendingLimit - 1, PendingLimit}}
    /\ modelPerf = <<>>
    /\ faults = {}
    /\ response = NoResponse
    /\ previous = NoResponse
    /\ dashboard = NotMounted
    /\ browser = NoPage

NextLimits ==
    \/ Tick
    \/ InjectFault
    \/ ClearFault
    \/ GET
    \/ Deliver

SpecLimits == InitLimits /\ [][NextLimits]_vars

Stored == Listed(predictions)

\* the unvalidated records with fewer than PendingLimit unvalidated
\* records written after them
FetchedUnvalidated ==
    {p \in Stored :
        /\ ~p.validated
        /\ Cardinality({q \in Stored :
                           ~q.validated /\ q.timestamp.t > p.timestamp.t})
              < PendingLimit}

\* C20: recentPredictions lists the stored records with the latest
\* timestamps, at most RecentLimit of them, latest first, validated or not
\* and inside the window or not; pendingPredictions lists at most
\* PendingLimit records, the due ones among the PendingLimit latest
\* unvalidated records.
C20_ListLimits ==
    Answered =>
        LET recent  == response.recentPredictions
            pending == response.pendingPredictions
        IN  /\ Len(recent) <= RecentLimit
            /\ Len(recent) = Cardinality(Listed(recent))
            /\ Len(recent) = RecentLimit \/ Listed(recent) = Stored
            /\ Listed(recent) \subseteq Stored
            /\ \A i \in 1..(Len(recent) - 1) :
                  recent[i].timestamp.t >= recent[i + 1].timestamp.t
            /\ \A p \in Stored \ Listed(recent), q \in Listed(recent) :
                  p.timestamp.t <= q.timestamp.t
            /\ Len(pending) <= PendingLimit
            /\ Len(pending) = Cardinality(Listed(pending))
            /\ Listed(pending) =
                  {p \in FetchedUnvalidated :
                      p.target_time.ok /\ p.target_time.t <= now}

\* a request was answered over more records than either limit: the
\* validated record outside the window is listed as recent and counted in
\* no aggregate, and a due record beyond the PendingLimit latest is not
\* listed as pending although fewer than PendingLimit are
C20_Witness ==
    /\ Answered
    /\ Len(response.recentPredictions) = RecentLimit
    /\ OutOfWindow \in Listed(response.recentPredictions)
    /\ response.overallStats.total_predictions = 0
    /\ Len(response.pendingPredictions) < PendingLimit
    /\ \E p \in Stored \ Listed(response.pendingPredictions) :
          ~p.validated /\ p.target_time.ok /\ p.target_time.t <= now

-----------------------------------------------------------------------------
(* The aggregates as a function of the collection, under SpecOrder: the    *)
(* collection is any sequence of sample records.                           *)

SampleRecord(tf, pt, validated, result, err, pct) ==
    [id                |-> 0,
     timestamp         |-> IF pt.ok THEN pt ELSE Iso(0),
     prediction_time   |-> pt,
     target_time       |-> IF pt.ok THEN Iso(pt.t + tf) ELSE BadText,
     timeframe_minutes |-> tf,
     validated         |-> validated,
     validation_result |-> result,
     price_error       |-> err,
     price_error_pct   |-> pct]

\* a win and a loss of one timeframe, a win at the window's lower edge, an
\* undecided record of an inactive timeframe, an unvalidated record and a
\* loss with an unparseable prediction_time
SampleRecords ==
    <<SampleRecord(5, Iso(0), TRUE, "WIN", Present(10), Present(1)),
      SampleRecord(5, Iso(0), TRUE, "LOSE", Present(30), Present(2)),
      SampleRecord(15, Iso(0 - WindowDays * 24 * 60), TRUE, "WIN",
                   Present(10), Present(1)),
      SampleRecord(20, Iso(0), TRUE, "null", Absent, Absent),
      SampleRecord(15, Iso(0), FALSE, "null", Absent, Absent),
      SampleRecord(15, BadText, TRUE, "LOSE", Present(30), Present(2))>>

\* the collections of up to MaxPreds + 1 sample records, in every order
SampleCollections ==
    UNION {{[i \in 1..n |-> [SampleRecords[s[i]] EXCEPT !.id = i]] :
               s \in [1..n -> DOMAIN SampleRecords]} :
           n \in 0..(MaxPreds + 1)}

InitOrder ==
    /\ now = 0
    /\ heartbeat = NoHeartbeat
    /\ predictions \in SampleCollections
    /\ modelPerf = <<>>
    /\ faults = {}
    /\ response = NoResponse
    /\ previous = NoResponse
    /\ dashboard = NotMounted
    /\ browser = NoPage

NextOrder ==
    \/ Tick
    \/ GET
    \/ Deliver

SpecOrder == InitOrder /\ [][NextOrder]_vars

\* the exchanges of two positions and the rotations of 1..n; every
\* permutation is a product of exchanges
Reorderings(n) ==
    {[i \in 1..n |-> IF i = a THEN b ELSE IF i = b THEN a ELSE i] :
        a \in 1..n, b \in 1..n}
    \cup {[i \in 1..n |-> ((i + r - 1) % n) + 1] : r \in 1..n}

Permuted(docs, f) == [i \in 1..Len(docs) |-> docs[f[i]]]

C21_OneAggregatePerGroup ==
    Answered =>
        /\ [k \in DOMAIN response.timeframeStats |->
               response.timeframeStats[k].timeframe_minutes]
              = <<5, 10, 15, 30, 60, 120, 240, 480, 720, 1440>>
        /\ [k \in DOMAIN response.categoryStats |->
               response.categoryStats[k].category]
              = <<"ultra_short", "short", "medium", "long">>

\* a request was answered with a group that holds records and an empty one,
\* among the timeframes and among the categories
C21_Witness ==
    /\ Answered
    /\ \E k \in DOMAIN response.timeframeStats :
          response.timeframeStats[k].total_predictions > 0
    /\ \E k \in DOMAIN response.timeframeStats :
          response.timeframeStats[k].total_predictions = 0
    /\ \E k \in DOMAIN response.categoryStats :
          response.categoryStats[k].total_predictions > 0
    /\ \E k \in DOMAIN response.categoryStats :
          response.categoryStats[k].total_predictions = 0

-----------------------------------------------------------------------------
(* The Dashboard component (src/app/page.tsx): its state, its interval     *)
(* timer and the fetches it has started.  A fetch is answered by the       *)
(* endpoint with a dashboard document or an error document, or is rejected *)
(* by the network.                                                         *)

NullData == [kind |-> "null"]

NullError == "null"

\* the dashboard document sent in answer to the fetch started id-th
Payload(id) == [kind |-> "dashboard", httpStatus |-> 200, request |-> id]

\* a body with an error field sent with status 200
ErrorBody ==
    [kind |-> "error", httpStatus |-> 200, error |-> "Failed to fetch data"]

\* fetch() rejecting
Rejected == [kind |-> "rejected", message |-> "Failed to fetch"]

\* what a fetch of /api/predictions can come back with
ResponsesTo(id) == {Payload(id), ErrorDocument, ErrorBody, Rejected}

\* lines 516-520: what the try block throws for a response, if anything
Thrown(r) ==
    IF r.kind = "rejected" THEN r.message
    ELSE IF r.httpStatus \notin 200..299
         THEN IF r.httpStatus = 500 THEN "HTTP error! status: 500"
              ELSE "HTTP error!"
         ELSE IF "error" \in DOMAIN r THEN r.error
              ELSE NullError

\* the continuation of fetchData dropping the data when the fetch failed
AfterFetchClearsData(d, r, clock) ==
    IF Thrown(r) = NullError
    THEN [d EXCEPT !.data = r, !.lastRefresh = Iso(clock),
                   !.loading = FALSE]
    ELSE [d EXCEPT !.data = NullData, !.error = Thrown(r),
                   !.loading = FALSE]

\* the continuation of fetchData showing a failure only when there is no
\* data to show
AfterFetchErrorOnlyWithoutData(d, r, clock) ==
    IF Thrown(r) = NullError
    THEN [d EXCEPT !.data = r, !.lastRefresh = Iso(clock),
                   !.loading = FALSE]
    ELSE [d EXCEPT !.error = IF d.data = NullData THEN Thrown(r) ELSE @,
                   !.loading = FALSE]

\* the continuation of fetchData with setLoading(false) at the end of the
\* try block instead of in finally
AfterFetchLoadingInTry(d, r, clock) ==
    IF Thrown(r) = NullError
    THEN [d EXCEPT !.data = r, !.lastRefresh = Iso(clock),
                   !.loading = FALSE]
    ELSE [d EXCEPT !.error = Thrown(r)]

\* lines 516-528: fetchData from the return of its fetch on
AfterFetch(d, r, clock) ==
    IF Thrown(r) = NullError
    THEN [d EXCEPT !.data = r, !.lastRefresh = Iso(clock),
                   !.loading = FALSE]
    ELSE [d EXCEPT !.error = Thrown(r), !.loading = FALSE]

\* a new fetch aborting the ones in flight
InFlightAfterStartAborting(inflight, f) == {f}

\* line 514: the fetch is issued with no abort signal
InFlightAfterStart(inflight, f) == inflight \cup {f}

\* lines 513-514: fetchData up to its first await; cause and auto record
\* what called it and whether autoRefresh was on
StartFetch(b, cause, auto) ==
    [b EXCEPT !.started = @ + 1,
              !.inflight = InFlightAfterStart(@,
                  [id |-> b.started + 1, cause |-> cause, auto |-> auto])]

\* the effect setting its interval without a cleanup
IntervalsAfterEffectNoCleanup(n, was, is) == n + (IF is THEN 1 ELSE 0)

\* lines 531-536: the cleanup of the effect's last run clears its interval,
\* the new run sets one when autoRefresh is on
IntervalsAfterEffect(n, was, is) ==
    (n - (IF was THEN 1 ELSE 0)) + (IF is THEN 1 ELSE 0)

\* lines 544-571: which of the three screens is rendered
View(d) ==
    IF d.loading THEN "loading"
    ELSE IF d.error # NullError \/ d.data = NullData THEN "error"
         ELSE "data"

\* lines 502-509 and the effect's first run: the mounted component
Mounted ==
    [mounted     |-> TRUE,
     data        |-> NullData,
     loading     |-> TRUE,
     error       |-> NullError,
     lastRefresh |-> Iso(0),
     autoRefresh |-> TRUE]

PageOpened ==
    StartFetch([open      |-> TRUE,
                intervals |-> IntervalsAfterEffect(0, FALSE, TRUE),
                inflight  |-> {},
                started   |-> 0,
                arrivals  |-> <<>>],
               "mount", TRUE)

\* line 534: the interval calls fetchData
IntervalFires ==
    /\ dashboard.mounted
    /\ browser.intervals > 0
    /\ browser.started < MaxFetches
    /\ dashboard' = [dashboard EXCEPT !.error = NullError]
    /\ browser' = StartFetch(browser, "timer", dashboard.autoRefresh)
    /\ UNCHANGED <<env, response, previous>>

\* lines 936-946: Refresh Now, rendered on the data screen
RefreshNow ==
    /\ dashboard.mounted
    /\ View(dashboard) = "data"
    /\ browser.started < MaxFetches
    /\ dashboard' = [dashboard EXCEPT !.loading = TRUE, !.error = NullError]
    /\ browser' = StartFetch(browser, "refresh", dashboard.autoRefresh)
    /\ UNCHANGED <<env, response, previous>>

\* lines 562-567: Retry, rendered on the error screen
Retry ==
    /\ dashboard.mounted
    /\ View(dashboard) = "error"
    /\ browser.started < MaxFetches
    /\ dashboard' = [dashboard EXCEPT !.loading = TRUE, !.error = NullError]
    /\ browser' = StartFetch(browser, "retry", dashboard.autoRefresh)
    /\ UNCHANGED <<env, response, previous>>

\* lines 948-958 and 531-536: the toggle, rendered on the data screen; the
\* effect runs again, clearing its interval and calling fetchData
ToggleAutoRefresh ==
    /\ dashboard.mounted
    /\ View(dashboard) = "data"
    /\ browser.started < MaxFetches
    /\ dashboard' = [dashboard EXCEPT !.autoRefresh = ~@,
                                      !.error = NullError]
    /\ browser' =
          StartFetch(
              [browser EXCEPT !.intervals =
                  IntervalsAfterEffect(@, dashboard.autoRefresh,
                                       ~dashboard.autoRefresh)],
              "toggle", ~dashboard.autoRefresh)
    /\ UNCHANGED <<env, response, previous>>

\* a fetch in flight comes back and fetchData resumes
FetchReturns ==
    /\ dashboard.mounted
    /\ \E f \in browser.inflight : \E r \in ResponsesTo(f.id) :
          /\ dashboard' = AfterFetch(dashboard, r, now)
          /\ browser' =
                [browser EXCEPT
                    !.inflight = @ \ {f},
                    !.arrivals = Append(@, [id      |-> f.id,
                                            ok      |-> Thrown(r) = NullError,
                                            cause   |-> f.cause,
                                            started |-> browser.started])]
    /\ UNCHANGED <<env, response, previous>>

InitClient ==
    /\ now = 0
    /\ heartbeat = NoHeartbeat
    /\ predictions = <<>>
    /\ modelPerf = <<>>
    /\ faults = {}
    /\ response = NoResponse
    /\ previous = NoResponse
    /\ dashboard = Mounted
    /\ browser = PageOpened

NextClient ==
    \/ IntervalFires
    \/ RefreshNow
    \/ Retry
    \/ ToggleAutoRefresh
    \/ FetchReturns

SpecClient == InitClient /\ [][NextClient]_vars

\* every fetch in flight eventually comes back
FairSpecClient == SpecClient /\ WF_vars(FetchReturns)

-----------------------------------------------------------------------------
(* Properties of the Dashboard component, under SpecClient and             *)
(* FairSpecClient.                                                         *)

InFlightIds == {f.id : f \in browser.inflight}

ArrivedIds == {browser.arrivals[i].id : i \in DOMAIN browser.arrivals}

\* the payload of the last successful arrival, or null
LastSuccess ==
    LET oks == {i \in DOMAIN browser.arrivals : browser.arrivals[i].ok}
    IN  IF oks = {} THEN NullData
        ELSE Payload(browser.arrivals[
                 CHOOSE i \in oks : \A j \in oks : j <= i].id)

NoneLost ==
    /\ InFlightIds \cup ArrivedIds = 1..browser.started
    /\ InFlightIds \cap ArrivedIds = {}
    /\ Len(browser.arrivals) = Cardinality(ArrivedIds)

\* C22: every fetch started is in flight until it comes back, whatever is
\* started meanwhile; every fetch in flight comes back; and when none is
\* in flight the data shown is that of the successful response that came
\* back last.
C22_NeverCancelled ==
    /\ [](NoneLost /\ (browser.inflight = {} => dashboard.data = LastSuccess))
    /\ \A i \in 1..MaxFetches : (i \in InFlightIds) ~> (i \in ArrivedIds)

\* two fetches overlapped, the later one came back first, then the earlier
\* one came back with a dashboard document
C22_Witness ==
    /\ browser.inflight = {}
    /\ Len(browser.arrivals) >= 2
    /\ browser.arrivals[1].id > browser.arrivals[2].id
    /\ browser.arrivals[2].ok
    /\ dashboard.data = Payload(browser.arrivals[2].id)

\* the step is the return of a fetch that failed
FailureArrives ==
    /\ Len(browser'.arrivals) = Len(browser.arrivals) + 1
    /\ ~browser'.arrivals[Len(browser'.arrivals)].ok

\* C23: the return of a failed fetch changes error and loading only, never
\* data; so data is always the payload of the last successful arrival, or
\* null when there was none.
C23_FailureKeepsData ==
    /\ [](dashboard.data = LastSuccess)
    /\ [][FailureArrives =>
            /\ dashboard'.data = dashboard.data
            /\ dashboard'.lastRefresh = dashboard.lastRefresh
            /\ dashboard'.autoRefresh = dashboard.autoRefresh
            /\ dashboard'.error # NullError
            /\ ~dashboard'.loading]_vars

\* a fetch failed after an earlier one had succeeded, and the data of the
\* earlier one is still held
C23_Witness ==
    /\ browser.arrivals # <<>>
    /\ ~browser.arrivals[Len(browser.arrivals)].ok
    /\ dashboard.data # NullData
    /\ dashboard.error # NullError

\* a fetch has failed and none has been started since
FailedSinceLastStart ==
    \E i \in DOMAIN browser.arrivals :
        /\ ~browser.arrivals[i].ok
        /\ browser.arrivals[i].started = browser.started

\* C24: from the return of a failed fetch until the next fetch is started
\* the error screen with its Retry button is rendered, with or without
\* earlier data; a press of Retry starts one fetch.
C24_FailureShowsRetry ==
    /\ [](FailedSinceLastStart => View(dashboard) = "error")
    /\ [][Retry =>
            /\ View(dashboard) = "error"
            /\ browser'.started = browser.started + 1
            /\ InFlightIds' = InFlightIds \cup {browser'.started}]_vars

\* a fetch failed while data of an earlier fetch is held, and the error
\* screen is rendered
C24_Witness ==
    /\ FailedSinceLastStart
    /\ dashboard.data # NullData
    /\ View(dashboard) = "error"

\* C25 (as claimed): the data shown is never that of a fetch started
\* earlier than a fetch whose dashboard document has already been shown.
C25_NoStaleOverwrite ==
    dashboard.data # NullData =>
        \A i \in DOMAIN browser.arrivals :
            browser.arrivals[i].ok =>
                browser.arrivals[i].id <= dashboard.data.request

\* the last fetch to come back succeeded and none has been started since
SucceededSinceLastStart ==
    /\ browser.arrivals # <<>>
    /\ browser.arrivals[Len(browser.arrivals)].ok
    /\ browser.arrivals[Len(browser.arrivals)].started = browser.started

\* C26 (as claimed): once a fetch has come back with a dashboard document,
\* error is null and the data screen is rendered, whatever the other
\* fetches did meanwhile.
C26_SuccessClearsError ==
    SucceededSinceLastStart =>
        /\ dashboard.error = NullError
        /\ View(dashboard) = "data"

\* C27: loading is true only while a fetch is in flight: it becomes true
\* only in a step that starts a fetch, and every return of a fetch,
\* successful or failed, makes it false.
C27_LoadingOnlyWhileFetching ==
    /\ [](browser.inflight = {} => ~dashboard.loading)
    /\ [][(~dashboard.loading /\ dashboard'.loading)
              => browser'.started = browser.started + 1]_vars
    /\ [][Len(browser'.arrivals) > Len(browser.arrivals)
              => ~dashboard'.loading]_vars

\* a fetch started by Retry, which sets loading, failed as the last one in
\* flight
C27_Witness ==
    /\ browser.inflight = {}
    /\ browser.arrivals # <<>>
    /\ browser.arrivals[Len(browser.arrivals)].cause = "retry"
    /\ ~browser.arrivals[Len(browser.arrivals)].ok
    /\ ~dashboard.loading

\* the step starts a fetch called by one of the given callers
StartsFetchBy(causes) ==
    /\ browser'.started = browser.started + 1
    /\ \E f \in browser'.inflight :
          f.id = browser'.started /\ f.cause \in causes

\* C28: at most one interval is active, and none while autoRefresh is off;
\* while it is off a fetch is started only by Refresh Now, by Retry or by
\* the toggle, and every change of autoRefresh starts one fetch.
C28_OneIntervalOnlyWhileOn ==
    /\ [](/\ browser.intervals <= 1
          /\ ~dashboard.autoRefresh => browser.intervals = 0
          /\ dashboard.autoRefresh => browser.intervals = 1)
    /\ [][(browser'.started # browser.started /\ ~dashboard'.autoRefresh)
              => StartsFetchBy({"refresh", "retry", "toggle"})]_vars
    /\ [][dashboard'.autoRefresh # dashboard.autoRefresh
              => StartsFetchBy({"toggle"})]_vars

\* autoRefresh was switched off and a fetch started by hand is in flight
C28_Witness ==
    /\ ~dashboard.autoRefresh
    /\ browser.intervals = 0
    /\ \E f \in browser.inflight : f.cause \in {"refresh", "retry"}
    /\ \E i \in DOMAIN browser.arrivals : browser.arrivals[i].cause = "toggle"

-----------------------------------------------------------------------------
(* The endpoint's reads one after another, under SpecSkew: the store can   *)
(* change between the pending query and the validated query of a request.  *)

\* lines 133-188: GET up to the pending list; the validated query has not
\* been sent yet
GETBegin ==
    /\ response = NoResponse
    /\ response' =
          IF "query" \in faults THEN ErrorDocument
          ELSE [kind               |-> "reading",
                systemStatus       |-> GetSystemStatus(heartbeat, now, faults),
                currentPrice       |-> GetCurrentBTCPrice(faults),
                recentPredictions  |-> RecentPredictions(predictions),
                pendingPredictions |-> PendingPredictions(predictions, now)]
    /\ UNCHANGED <<env, previous, page>>

\* the external validator attaches the validation fields while a request
\* is between its queries
ValidateWhileReading ==
    /\ response.kind = "reading"
    /\ \E i \in DOMAIN predictions :
          /\ ~predictions[i].validated
          /\ \E o \in ValidationOutcomes :
                predictions' =
                    [predictions EXCEPT
                        ![i].validated = TRUE,
                        ![i].validation_result = o.result,
                        ![i].price_error = o.price_error,
                        ![i].price_error_pct = o.price_error_pct]
    /\ UNCHANGED <<now, heartbeat, modelPerf, faults, response, previous,
                   page>>

\* lines 192-303: the validated query, the aggregates, the model
\* performance query and the document, with the lists read before
GETEnd ==
    /\ response.kind = "reading"
    /\ response' =
          IF "query" \in faults THEN ErrorDocument
          ELSE [DashboardDocument(heartbeat, predictions, modelPerf, now,
                                  faults)
                   EXCEPT !.systemStatus = response.systemStatus,
                          !.currentPrice = response.currentPrice,
                          !.recentPredictions = response.recentPredictions,
                          !.pendingPredictions = response.pendingPredictions]
    /\ UNCHANGED <<env, previous, page>>

\* one-minute predictions are written and validated, before a request or
\* in the middle of one
InitSkew ==
    /\ now = 0
    /\ heartbeat = NoHeartbeat
    /\ predictions = <<>>
    /\ modelPerf = <<>>
    /\ faults = {}
    /\ response = NoResponse
    /\ previous = NoResponse
    /\ dashboard = NotMounted
    /\ browser = NoPage

NextSkew ==
    \/ CreateShortPrediction
    \/ ValidatePrediction
    \/ GETBegin
    \/ ValidateWhileReading
    \/ GETEnd
    \/ Deliver

SpecSkew == InitSkew /\ [][NextSkew]_vars

\* C29 (as claimed): no record listed in pendingPredictions is counted in
\* the validated aggregates of the same response.
C29_SingleSnapshot ==
    Answered =>
        \A p \in Listed(response.pendingPredictions) :
            \A i \in DOMAIN predictions :
                predictions[i].id = p.id => ~Participates(predictions[i])

-----------------------------------------------------------------------------
(* The status card of the page (SystemStatusCard, src/app/page.tsx)        *)
(* against the resolver, under Spec.                                       *)

\* Math.floor
MathFloor(x) == IF x.nan \/ x.d = 0 THEN x ELSE Num(x.n \div x.d)

\* lines 294-311: updateStatus, for a systemStatus with a timestamp
SystemStatusCard(systemStatus, clock) ==
    LET lastTime    == NewDate(systemStatus.timestamp)
        diffMinutes ==
            MathFloor(NumDiv(NumSub(DateNow(clock), lastTime), Num(60000)))
    IN  IF systemStatus.status = "offline" \/ systemStatus.status = "error"
        THEN "offline"
        ELSE IF NumLt(diffMinutes, Num(2)) THEN "online"
        ELSE IF NumLt(diffMinutes, Num(10)) THEN "warning"
        ELSE "offline"

\* C30 (as claimed): for a heartbeat record with a parseable timestamp the
\* card, rendered at the clock of the response, shows OFFLINE exactly when
\* the resolved status is offline or error.
C30_CardAgreesOnOffline ==
    (ResolvedFromRecord /\ heartbeat.timestamp.ok) =>
        (SystemStatusCard(response.systemStatus, now) = "offline"
            <=> response.systemStatus.status \in {"offline", "error"})
=============================================================================
